---- MODULE Spec2Model ----
(***************************************************************************)
(* Model of the ai-doc-assistant backend: the in-memory session store of   *)
(* document.controller (documentSessions), the six request handlers, the   *)
(* document processor and the answer parser of the OpenAI service.         *)
(*                                                                         *)
(* Node runs every handler to completion between two awaits, so one action *)
(* is one stretch of handler code between two suspension points.           *)
(* Strings are sequences of one-character strings.                         *)
(*                                                                         *)
(* Spec is the whole program.  BoundarySpec, ParserSpec, ProcessorSpec and *)
(* PreviewSpec run the upload middleware, the answer parser,               *)
(* processDocument and the preview on their own, each on every argument of *)
(* a bounded set (arg, out).  FaultSpec is the program with handlers and   *)
(* middleware that throw, started in production or development mode.       *)
(* AppSpec is one browser (App.tsx) against the server's handlers.         *)
(***************************************************************************)
EXTENDS Integers, Sequences, FiniteSets, Bags, TLC

\* ------------------------------------------------------------------ bounds
MaxRequests == 3   \* requests of one run whose handler reaches an await
MaxTokens == 4     \* pieces a raw model output is put together from
MaxContent == 4    \* characters of a file's content
MaxText == 230     \* characters of an extracted text whose preview is taken

Ids == 1..MaxRequests        \* the ids uuidv4() can return in one run
NoId == 0                    \* a missing / empty sessionId ("" or undefined)
FabricatedId == MaxRequests + 1   \* a well-formed id that is never issued

\* ----------------------------------------------------------------- strings
WhiteSpace == {" ", "\n", "\t", "\r"}

UpperChars == <<"A","B","C","D","E","F","G","H","I","J","K","L","M",
                "N","O","P","Q","R","S","T","U","V","W","X","Y","Z">>
LowerChars == <<"a","b","c","d","e","f","g","h","i","j","k","l","m",
                "n","o","p","q","r","s","t","u","v","w","x","y","z">>

\* the /i flag of the two marker expressions
Lower(c) ==
    IF \E k \in 1..Len(UpperChars) : UpperChars[k] = c
    THEN LowerChars[CHOOSE k \in 1..Len(UpperChars) : UpperChars[k] = c]
    ELSE c

RECURSIVE TrimLeft(_)
TrimLeft(s) ==
    IF s # <<>> /\ Head(s) \in WhiteSpace THEN TrimLeft(Tail(s)) ELSE s

RECURSIVE TrimRight(_)
TrimRight(s) ==
    IF s # <<>> /\ s[Len(s)] \in WhiteSpace
    THEN TrimRight(SubSeq(s, 1, Len(s) - 1))
    ELSE s

\* String.prototype.trim
Trim(s) == TrimRight(TrimLeft(s))

\* JavaScript truthiness of a string: !s is true exactly for ""
Truthy(s) == Len(s) > 0

\* !s || s.trim().length === 0
IsBlank(s) == ~Truthy(s) \/ Len(Trim(s)) = 0

\* pat (lower case) occurs in s at position i, ignoring case
MatchAt(s, i, pat) ==
    /\ i >= 1
    /\ i + Len(pat) - 1 <= Len(s)
    /\ \A k \in 1..Len(pat) : Lower(s[i + k - 1]) = pat[k]

\* first position >= from where pat occurs in s, 0 if none
IndexFrom(s, pat, from) ==
    LET hits == {i \in from..Len(s) : MatchAt(s, i, pat)}
    IN  IF hits = {} THEN 0 ELSE CHOOSE i \in hits : \A j \in hits : i <= j

\* first position >= from holding no white space, Len(s)+1 if none
SkipSpace(s, from) ==
    LET stops == {i \in from..Len(s) : s[i] \notin WhiteSpace}
    IN  IF stops = {} THEN Len(s) + 1
        ELSE CHOOSE i \in stops : \A j \in stops : i <= j

AnswerMarker == <<"a","n","s","w","e","r",":">>
CitationsMarker == <<"c","i","t","a","t","i","o","n","s",":">>

\* ------------------------------------------------- answer parser (askQuestion)
\* variant: the answer runs to the end of the output, CITATIONS: included
AnswerOfToEnd(fullResponse) ==
    LET a == IndexFrom(fullResponse, AnswerMarker, 1)
    IN  IF a = 0 THEN fullResponse
        ELSE Trim(SubSeq(fullResponse, a + Len(AnswerMarker), Len(fullResponse)))

\* fullResponse.match(/ANSWER:\s*([\s\S]*?)(?=CITATIONS:|$)/i), then
\* answerMatch ? answerMatch[1].trim() : fullResponse
AnswerOf(fullResponse) ==
    LET a == IndexFrom(fullResponse, AnswerMarker, 1)
    IN  IF a = 0 THEN fullResponse
        ELSE LET k == SkipSpace(fullResponse, a + Len(AnswerMarker))
                 c == IndexFrom(fullResponse, CitationsMarker, k)
                 e == IF c = 0 THEN Len(fullResponse) ELSE c - 1
             IN  Trim(SubSeq(fullResponse, k, e))

\* fullResponse.match(/CITATIONS:\s*([\s\S]*?)$/i), then
\* citationsMatch ? citationsMatch[1].trim() : ""
CitationsTextOf(fullResponse) ==
    LET c == IndexFrom(fullResponse, CitationsMarker, 1)
    IN  IF c = 0 THEN <<>>
        ELSE Trim(SubSeq(fullResponse, c + Len(CitationsMarker), Len(fullResponse)))

\* match.replace(/[\[\]]/g, "")
StripBrackets(s) == SelectSeq(s, LAMBDA c : c \notin {"[", "]"})

InSeq(x, seq) == \E k \in 1..Len(seq) : seq[k] = x

\* text.match(/\[([^\]]+)\]/g) followed by the forEach that strips, trims and
\* pushes every citation that is non-empty and not yet included
RECURSIVE ScanCitations(_, _, _)
ScanCitations(text, i, citations) ==
    IF i > Len(text) THEN citations
    ELSE IF text[i] # "[" THEN ScanCitations(text, i + 1, citations)
    ELSE LET closes == {j \in (i + 1)..Len(text) : text[j] = "]"}
         IN  IF closes = {} THEN citations
             ELSE LET j == CHOOSE x \in closes : \A y \in closes : x <= y
                  IN  IF j = i + 1
                      THEN ScanCitations(text, i + 1, citations)
                      ELSE LET citation == Trim(StripBrackets(SubSeq(text, i, j)))
                           IN  ScanCitations(text, j + 1,
                                   IF Truthy(citation) /\ ~InSeq(citation, citations)
                                   THEN Append(citations, citation)
                                   ELSE citations)

\* variant: the answer is scanned in every case and its labels are added
ParseResponseMerging(fullResponse) ==
    LET answer == AnswerOf(fullResponse)
        citationsText == CitationsTextOf(fullResponse)
        structured == IF Truthy(citationsText)
                      THEN ScanCitations(citationsText, 1, <<>>)
                      ELSE <<>>
    IN  [answer |-> answer, citations |-> ScanCitations(answer, 1, structured)]

\* the parsing half of askQuestion: { answer, citations }
ParseResponse(fullResponse) ==
    LET answer == AnswerOf(fullResponse)
        citationsText == CitationsTextOf(fullResponse)
        structured == IF Truthy(citationsText)
                      THEN ScanCitations(citationsText, 1, <<>>)
                      ELSE <<>>
        citations == IF Len(structured) = 0
                     THEN ScanCitations(answer, 1, <<>>)
                     ELSE structured
    IN  [answer |-> answer, citations |-> citations]

\* ------------------------------------------------------- document processor
MimePdf == "application/pdf"
MimeDocx == "application/vnd.openxmlformats-officedocument.wordprocessingml.document"
MimeTxt == "text/plain"

\* variant: an extractor that hands back whatever it read, empty or not
ExtractTextUnchecked(content, unreadable) ==
    IF unreadable
    THEN [threw |-> TRUE, text |-> <<>>, error |-> "Extraction failed"]
    ELSE [threw |-> FALSE, text |-> content, error |-> ""]

\* extractTextFromPDF / extractTextFromDOCX / extractTextFromTXT: the decoder
\* (or the read) throws on an unreadable file, and each extractor throws on
\* text that is empty after trimming; otherwise the raw text is returned.
ExtractText(content, unreadable) ==
    IF unreadable
    THEN [threw |-> TRUE, text |-> <<>>, error |-> "Extraction failed"]
    ELSE IF IsBlank(content)
    THEN [threw |-> TRUE, text |-> <<>>,
          error |-> "Extraction failed: document is empty"]
    ELSE [threw |-> FALSE, text |-> content, error |-> ""]

\* variant: the extracted text is returned as it was read
processDocumentUntrimmed(exists, mimetype, content, unreadable) ==
    IF ~exists
    THEN [success |-> FALSE, text |-> <<>>, error |-> "File not found"]
    ELSE IF mimetype \notin {MimePdf, MimeDocx, MimeTxt}
    THEN [success |-> FALSE, text |-> <<>>, error |-> "Unsupported file type"]
    ELSE LET extracted == ExtractText(content, unreadable)
         IN  IF extracted.threw
             THEN [success |-> FALSE, text |-> <<>>, error |-> extracted.error]
             ELSE [success |-> TRUE, text |-> extracted.text, error |-> ""]

\* processDocument(filePath, mimetype) on a file that exists or not
processDocument(exists, mimetype, content, unreadable) ==
    IF ~exists
    THEN [success |-> FALSE, text |-> <<>>, error |-> "File not found"]
    ELSE IF mimetype \notin {MimePdf, MimeDocx, MimeTxt}
    THEN [success |-> FALSE, text |-> <<>>, error |-> "Unsupported file type"]
    ELSE LET extracted == ExtractText(content, unreadable)
         IN  IF extracted.threw
             THEN [success |-> FALSE, text |-> <<>>, error |-> extracted.error]
             ELSE [success |-> TRUE, text |-> Trim(extracted.text), error |-> ""]

\* ---------------------------------------------- upload boundary (multer)
MAX_FILE_SIZE == 10 * 1024 * 1024

ALLOWED_MIME_TYPES == {MimePdf, MimeDocx, MimeTxt}

ALLOWED_EXTENSIONS == {<<".", "p", "d", "f">>, <<".", "d", "o", "c", "x">>,
                       <<".", "t", "x", "t">>}

\* path.extname(name): from the last dot to the end, "" when there is no dot
\* or the only dot is the first character
ExtName(name) ==
    LET dots == {i \in 1..Len(name) : name[i] = "."}
    IN  IF dots = {} THEN <<>>
        ELSE LET d == CHOOSE i \in dots : \A j \in dots : j <= i
             IN  IF d = 1 THEN <<>> ELSE SubSeq(name, d, Len(name))

\* String.prototype.toLowerCase
ToLowerCase(s) == [k \in 1..Len(s) |-> Lower(s[k])]

\* fileFilter: the message of the Error it passes to cb, "" for cb(null, true)
fileFilter(file) ==
    IF ToLowerCase(ExtName(file.originalname)) \notin ALLOWED_EXTENSIONS
    THEN "Invalid file type"
    ELSE IF file.mimetype \notin ALLOWED_MIME_TYPES
    THEN "Invalid MIME type"
    ELSE ""

\* the name of the form field uploadMiddleware.single expects
FileField == "file"

\* variant: a middleware configured without limits.fileSize
uploadMiddlewareNoLimit(file) ==
    IF file.fieldname # FileField
    THEN [kind |-> "MulterError", code |-> "LIMIT_UNEXPECTED_FILE"]
    ELSE IF fileFilter(file) # ""
    THEN [kind |-> "Error", code |-> fileFilter(file)]
    ELSE [kind |-> "", code |-> ""]

\* uploadMiddleware.single("file") on a request that carries one file: the
\* error it passes on, with kind "" when the file is stored and the request
\* goes on to uploadDocument
uploadMiddleware(file) ==
    IF file.fieldname # FileField
    THEN [kind |-> "MulterError", code |-> "LIMIT_UNEXPECTED_FILE"]
    ELSE IF fileFilter(file) # ""
    THEN [kind |-> "Error", code |-> fileFilter(file)]
    ELSE IF file.size > MAX_FILE_SIZE
    THEN [kind |-> "MulterError", code |-> "LIMIT_FILE_SIZE"]
    ELSE [kind |-> "", code |-> ""]

\* handleMulterError: the response to an error of the middleware
handleMulterError(err) ==
    IF err.kind = "MulterError"
    THEN IF err.code = "LIMIT_FILE_SIZE"
         THEN [status |-> 400, error |-> "File too large"]
         ELSE IF err.code = "LIMIT_UNEXPECTED_FILE"
         THEN [status |-> 400, error |-> "Unexpected field"]
         ELSE [status |-> 400, error |-> "Upload error"]
    ELSE [status |-> 400, error |-> "File validation error"]

\* the route of POST /upload up to uploadDocument: the file is handed on
\* (accepted) or the request is answered by handleMulterError
UploadBoundary(file) ==
    LET err == uploadMiddleware(file)
    IN  IF err.kind = ""
        THEN [accepted |-> TRUE, status |-> 0, error |-> "", message |-> ""]
        ELSE [accepted |-> FALSE, status |-> handleMulterError(err).status,
              error |-> handleMulterError(err).error, message |-> err.code]

\* ------------------------------------------------------------------ inputs
\* the files a client uploads: the file part of the multipart request
UploadFiles == <<
    [originalname |-> <<"a", ".", "t", "x", "t">>, mimetype |-> MimeTxt,
     fieldname |-> "file", size |-> 3,
     content |-> <<" ", "d", " ">>, unreadable |-> FALSE],
    [originalname |-> <<"c", ".", "p", "d", "f">>, mimetype |-> MimePdf,
     fieldname |-> "file", size |-> 1,
     content |-> <<"e">>, unreadable |-> TRUE],
    [originalname |-> <<"b", ".", "t", "x", "t">>, mimetype |-> MimeTxt,
     fieldname |-> "file", size |-> MAX_FILE_SIZE + 1,
     content |-> <<"d">>, unreadable |-> FALSE],
    [originalname |-> <<"a", ".", "e", "x", "e">>, mimetype |-> "application/octet-stream",
     fieldname |-> "file", size |-> 1,
     content |-> <<"d">>, unreadable |-> FALSE] >>

\* req.body.question / req.body.text: missing, blank but truthy, a real one
Questions == { <<>>, <<" ">>, <<"q">> }

\* what the completion call produces: it throws, or it returns a content
\* (completion.choices[0]?.message?.content || "")
ModelReplies == { <<>>, <<"A","n","s","w","e","r",":"," ","y","[","1","]">> }
ModelOutcomes == {[throws |-> TRUE, content |-> <<>>]}
                     \cup {[throws |-> FALSE, content |-> c] : c \in ModelReplies}

\* ------------------------------------------------------------------- state
VARIABLES
    documentSessions,  \* the Map: sessionId key -> session object (its reference)
    heap,              \* session objects by reference; NoSession where none was made
    disk,              \* the paths under uploads/ that hold a file
    issued,            \* the ids uuidv4() has returned
    apiKey,            \* process.env.OPENAI_API_KEY is set
    req,               \* the bag of requests suspended at an await
    lastResp,          \* the response sent last
    chatOk,            \* per session object, the chat requests answered with 200
    started,           \* the requests so far whose handler reached an await
    arg,               \* the argument of a function that is run on its own
    out,               \* what that function returned, NoOut before it ran
    app,               \* the state of the browser's App component
    localStorage,      \* the browser's localStorage: key -> value
    NODE_ENV           \* process.env.NODE_ENV

vars == <<documentSessions, heap, disk, issued, apiKey, req, lastResp, chatOk,
          started, arg, out, app, localStorage, NODE_ENV>>

\* no function is run on its own; what a function returned once it ran
NoArg == "none"
NoOut == [done |-> FALSE]
Returned(value) == [done |-> TRUE, value |-> value]

NoSession == [sessionId |-> NoId, filename |-> <<>>, filepath |-> NoId,
              mimetype |-> "", text |-> <<>>, uploadedAt |-> 0,
              conversationHistory |-> <<>>]

\* the useState hooks of App as they are when it is first rendered
AppState == [sessionId |-> NoId, documentUploaded |-> FALSE, documentName |-> <<>>,
             showNewDocumentDialog |-> FALSE, handled |-> {}]

\* the locals a suspended handler holds
Request == [pc |-> "", op |-> "", sessionId |-> NoId, input |-> <<>>,
            session |-> NoId, file |-> 0, messages |-> <<>>, error |-> ""]

\* a response: the handler (op), the status, the body's fields, the request
\* it answers (the locals of the handler if it was suspended, else the
\* arguments it was called with), how the handler's fs.unlink ended and the
\* message of the exception a catch block answers ("" where none was thrown)
NoResp == [op |-> "none", status |-> 0, message |-> "", thrown |-> "",
           sessionId |-> NoId, filename |-> <<>>,
           preview |-> <<>>, answer |-> <<>>, citations |-> <<>>,
           conversationHistory |-> <<>>, summary |-> <<>>, simplified |-> <<>>,
           markdown |-> <<>>, request |-> Request, unlink |-> "none"]

\* res.status(status).json({error, message}) of the handler of op, sent before
\* any await to the request that carried sessionId and input
ErrorResp(op, sessionId, input, status, message) ==
    [NoResp EXCEPT !.op = op, !.status = status, !.message = message,
                   !.request = [Request EXCEPT !.op = op, !.sessionId = sessionId,
                                               !.input = input]]

\* the same, sent by a handler that was suspended as r
ErrorRespOf(r, status, message) ==
    [NoResp EXCEPT !.op = r.op, !.status = status, !.message = message,
                   !.request = r]

Keys == DOMAIN documentSessions

\* variant: a lookup that still finds a session after its key was deleted
GetStale(key) == IF key \in Ids /\ heap[key] # NoSession THEN key ELSE NoId

\* documentSessions.get(key): the session object's reference, NoId for undefined
Get(key) == IF key \in Keys THEN documentSessions[key] ELSE NoId

InFlight == BagToSet(req)

\* the handler reaches an await and is suspended with its locals
Suspend(r) ==
    /\ started < MaxRequests
    /\ started' = started + 1
    /\ req' = req (+) SetToBag({r})

\* the awaited call returns and the handler runs on
Resume(r) ==
    /\ req' = req (-) SetToBag({r})
    /\ UNCHANGED started

Init ==
    /\ documentSessions = <<>>
    /\ heap = [i \in Ids |-> NoSession]
    /\ disk = {}
    /\ issued = {}
    /\ apiKey \in BOOLEAN
    /\ req = EmptyBag
    /\ lastResp = NoResp
    /\ chatOk = [i \in Ids |-> 0]
    /\ started = 0
    /\ arg = NoArg
    /\ out = NoOut
    /\ app = AppState
    /\ localStorage = [key \in {} |-> <<>>]
    /\ NODE_ENV = "development"

\* ------------------------------------------------------------------ upload
PreviewLen == 200

\* variant: the ellipsis is added from 200 characters on
PreviewFrom200(text) ==
    SubSeq(text, 1, IF Len(text) < PreviewLen THEN Len(text) ELSE PreviewLen)
        \o (IF Len(text) >= PreviewLen THEN <<".", ".", ".">> ELSE <<>>)

\* result.text.substring(0, 200) + (result.text.length > 200 ? "..." : "")
Preview(text) ==
    SubSeq(text, 1, IF Len(text) < PreviewLen THEN Len(text) ELSE PreviewLen)
        \o (IF Len(text) > PreviewLen THEN <<".", ".", ".">> ELSE <<>>)

\* variant: an identifier generator that returns the same id on every call
uuidv4Fixed == {i \in Ids : \A j \in Ids : i <= j}

\* uuidv4(): an identifier no earlier call returned (the least one stands for
\* any of them)
uuidv4 ==
    LET fresh == Ids \ issued
    IN  {i \in fresh : \A j \in fresh : i <= j}

\* variant: a store of capacity one, set evicts what was stored before
MapSetEvicting(map, key, ref) == [k \in {key} |-> ref]

\* documentSessions.set(key, session)
MapSet(map, key, ref) ==
    [k \in DOMAIN map \cup {key} |-> IF k = key THEN ref ELSE map[k]]

\* variant: a delete that leaves the entry in the map
MapDeleteKeeps(map, key) == map

\* documentSessions.delete(key)
MapDelete(map, key) == [k \in DOMAIN map \ {key} |-> map[k]]

\* fs.unlink(path): the outcomes it can have on the present disk
Unlink(path) ==
    IF path \in disk
    THEN {[ok |-> TRUE, disk |-> disk \ {path}], [ok |-> FALSE, disk |-> disk]}
    ELSE {[ok |-> FALSE, disk |-> disk]}

\* uploadDocument without req.file
UploadNoFile ==
    /\ lastResp' = ErrorResp("upload", NoId, <<>>, 400, "Please upload a file")
    /\ UNCHANGED <<documentSessions, heap, disk, issued, apiKey, arg, out, app, localStorage, NODE_ENV, req, chatOk, started>>

\* POST /upload with a file that the middleware does not hand on:
\* handleMulterError answers, uploadDocument is not called
UploadRejected(f) ==
    /\ ~UploadBoundary(UploadFiles[f]).accepted
    /\ lastResp' = [NoResp EXCEPT !.op = "upload",
                       !.status = UploadBoundary(UploadFiles[f]).status,
                       !.message = UploadBoundary(UploadFiles[f]).error,
                       !.request = [Request EXCEPT !.op = "upload", !.file = f]]
    /\ UNCHANGED <<documentSessions, heap, disk, issued, apiKey, arg, out, app, localStorage, NODE_ENV, req,
                   chatOk, started>>

\* uploadDocument up to `await processDocument`: multer has stored the file,
\* the sessionId is drawn
UploadStart(f) ==
    /\ UploadBoundary(UploadFiles[f]).accepted
    /\ \E sessionId \in uuidv4 :
          /\ issued' = issued \cup {sessionId}
          /\ disk' = disk \cup {sessionId}
          /\ Suspend([Request EXCEPT !.pc = "processDocument", !.op = "upload",
                                     !.session = sessionId, !.file = f])
    /\ UNCHANGED <<documentSessions, heap, apiKey, arg, out, app, localStorage, NODE_ENV, lastResp, chatOk>>

\* new Date(): the clock, which advances with every session that is created
Now == Cardinality({i \in Ids : heap[i] # NoSession})

\* the session object uploadDocument builds
NewSession(sessionId, file, path, text) ==
    [sessionId |-> sessionId, filename |-> file.originalname, filepath |-> path,
     mimetype |-> file.mimetype, text |-> text, uploadedAt |-> Now,
     conversationHistory |-> <<>>]

\* variant: a failed extraction is answered at once, the file is left behind
UploadProcessedNoCleanup(r) ==
    /\ r \in InFlight
    /\ r.pc = "processDocument"
    /\ LET sessionId == r.session
           file == UploadFiles[r.file]
           result == processDocument(sessionId \in disk, file.mimetype,
                                     file.content, file.unreadable)
       IN  IF ~result.success
           THEN /\ lastResp' = ErrorRespOf(r, 400, result.error)
                /\ UNCHANGED <<documentSessions, heap>>
           ELSE /\ heap' = [heap EXCEPT ![sessionId] =
                               NewSession(sessionId, file, sessionId, result.text)]
                /\ documentSessions' = MapSet(documentSessions, sessionId, sessionId)
                /\ lastResp' = [NoResp EXCEPT !.op = "upload", !.status = 200,
                                   !.request = r,
                                   !.sessionId = sessionId,
                                   !.filename = file.originalname,
                                   !.preview = Preview(result.text),
                                   !.message = "Document uploaded and processed successfully"]
    /\ Resume(r)
    /\ UNCHANGED <<disk, issued, apiKey, arg, out, app, localStorage, NODE_ENV, chatOk>>

\* uploadDocument from the return of processDocument: on failure on to
\* `await fs.unlink`, on success the session is stored and 200 is sent
UploadProcessed(r) ==
    /\ r \in InFlight
    /\ r.pc = "processDocument"
    /\ LET sessionId == r.session
           file == UploadFiles[r.file]
           result == processDocument(sessionId \in disk, file.mimetype,
                                     file.content, file.unreadable)
       IN  IF ~result.success
           THEN /\ req' = (req (-) SetToBag({r}))
                              (+) SetToBag({[r EXCEPT !.pc = "unlink",
                                                      !.error = result.error]})
                /\ UNCHANGED <<documentSessions, heap, lastResp, started>>
           ELSE /\ heap' = [heap EXCEPT ![sessionId] =
                               NewSession(sessionId, file, sessionId, result.text)]
                /\ documentSessions' = MapSet(documentSessions, sessionId, sessionId)
                /\ lastResp' = [NoResp EXCEPT !.op = "upload", !.status = 200,
                                   !.request = r,
                                   !.sessionId = sessionId,
                                   !.filename = file.originalname,
                                   !.preview = Preview(result.text),
                                   !.message = "Document uploaded and processed successfully"]
                /\ Resume(r)
    /\ UNCHANGED <<disk, issued, apiKey, arg, out, app, localStorage, NODE_ENV, chatOk>>

\* uploadDocument from the return of fs.unlink(file.path).catch(() => {})
UploadCleanedUp(r) ==
    /\ r \in InFlight
    /\ r.pc = "unlink"
    /\ r.op = "upload"
    /\ \E u \in Unlink(r.session) :
          /\ disk' = u.disk
          /\ lastResp' = [ErrorRespOf(r, 400, r.error)
                             EXCEPT !.unlink = IF u.ok THEN "ok" ELSE "failed"]
    /\ Resume(r)
    /\ UNCHANGED <<documentSessions, heap, issued, apiKey, arg, out, app, localStorage, NODE_ENV, chatOk>>

\* -------------------------------------------------------------------- chat
Turn(role, content) == [role |-> role, content |-> content]

\* variant: askQuestion without its test of the credential
AskPrecheckNoKeyTest(question, documentText) ==
    IF IsBlank(question) THEN "Question cannot be empty"
    ELSE IF IsBlank(documentText) THEN "Document text is empty"
    ELSE ""

\* askQuestion before its `await`: the early returns, "" when none is taken
AskPrecheck(question, documentText) ==
    IF IsBlank(question) THEN "Question cannot be empty"
    ELSE IF IsBlank(documentText) THEN "Document text is empty"
    ELSE IF ~apiKey THEN "OPENAI_API_KEY is not configured"
    ELSE ""

\* variant: the turns are sent with the roles they are stored with
AskMessagesUnmapped(question, documentText, conversationHistory) ==
    <<Turn("system", documentText)>>
        \o conversationHistory
        \o <<Turn("user", question)>>

\* the messages array askQuestion sends: the system message embedding the
\* document, the history with model mapped to assistant, the question
AskMessages(question, documentText, conversationHistory) ==
    <<Turn("system", documentText)>>
        \o [k \in 1..Len(conversationHistory) |->
               Turn(IF conversationHistory[k].role = "user" THEN "user" ELSE "assistant",
                    conversationHistory[k].content)]
        \o <<Turn("user", question)>>

\* askQuestion from the return of the completion call
AskResult(outcome) ==
    IF outcome.throws
    THEN [success |-> FALSE, hasData |-> FALSE, data |-> ParseResponse(<<>>),
          error |-> "Failed to answer question"]
    ELSE [success |-> TRUE, hasData |-> TRUE, data |-> ParseResponse(outcome.content),
          error |-> ""]

\* variant: the push of the model turn is missing
AppendTurnsUserOnly(conversationHistory, question, answer) ==
    Append(conversationHistory, Turn("user", question))

\* variant: the history is replaced by the latest pair
AppendTurnsReplacing(conversationHistory, question, answer) ==
    <<Turn("user", question), Turn("model", answer)>>

\* the two pushes of chatWithDocument
AppendTurns(conversationHistory, question, answer) ==
    Append(Append(conversationHistory, Turn("user", question)), Turn("model", answer))

\* variant: the user turn is pushed before askQuestion is awaited
ChatStartEager(sessionId, question) ==
    /\ IF sessionId = NoId \/ ~Truthy(question)
       THEN /\ lastResp' = ErrorResp("chat", sessionId, question, 400, "sessionId and question are required")
            /\ UNCHANGED <<req, started, heap>>
       ELSE IF Get(sessionId) = NoId
       THEN /\ lastResp' = ErrorResp("chat", sessionId, question, 404, "Invalid sessionId or session expired")
            /\ UNCHANGED <<req, started, heap>>
       ELSE LET session == Get(sessionId)
                error == AskPrecheck(question, heap[session].text)
            IN  /\ heap' = [heap EXCEPT ![session].conversationHistory =
                               Append(@, Turn("user", question))]
                /\ IF error # ""
                   THEN /\ lastResp' = ErrorResp("chat", sessionId, question, 500, error)
                        /\ UNCHANGED <<req, started>>
                   ELSE /\ Suspend([Request EXCEPT !.pc = "openai", !.op = "chat",
                                       !.sessionId = sessionId, !.input = question,
                                       !.session = session,
                                       !.messages = AskMessages(question,
                                           heap[session].text,
                                           heap[session].conversationHistory)])
                        /\ UNCHANGED lastResp
    /\ UNCHANGED <<documentSessions, disk, issued, apiKey, arg, out, app, localStorage, NODE_ENV, chatOk>>

\* chatWithDocument up to `await askQuestion`, through askQuestion's own
\* early returns and up to its completion call
ChatStart(sessionId, question) ==
    /\ IF sessionId = NoId \/ ~Truthy(question)
       THEN /\ lastResp' = ErrorResp("chat", sessionId, question, 400, "sessionId and question are required")
            /\ UNCHANGED <<req, started>>
       ELSE IF Get(sessionId) = NoId
       THEN /\ lastResp' = ErrorResp("chat", sessionId, question, 404, "Invalid sessionId or session expired")
            /\ UNCHANGED <<req, started>>
       ELSE LET session == Get(sessionId)
                error == AskPrecheck(question, heap[session].text)
            IN  IF error # ""
                THEN /\ lastResp' = ErrorResp("chat", sessionId, question, 500, error)
                     /\ UNCHANGED <<req, started>>
                ELSE /\ Suspend([Request EXCEPT !.pc = "openai", !.op = "chat",
                                    !.sessionId = sessionId, !.input = question,
                                    !.session = session,
                                    !.messages = AskMessages(question,
                                        heap[session].text,
                                        heap[session].conversationHistory)])
                     /\ UNCHANGED lastResp
    /\ UNCHANGED <<documentSessions, heap, disk, issued, apiKey, arg, out, app, localStorage, NODE_ENV, chatOk>>

\* variant: the response's history is rebuilt from what the request read of
\* the history when it started, plus its own two turns
ChatResponseFromSnapshot(r, data, conversationHistory) ==
    [NoResp EXCEPT !.op = "chat", !.status = 200, !.request = r,
                   !.answer = data.answer, !.citations = data.citations,
                   !.conversationHistory =
                       [k \in 1..(Len(r.messages) - 2) |->
                           Turn(IF r.messages[k + 1].role = "user"
                                THEN "user" ELSE "model",
                                r.messages[k + 1].content)]
                           \o <<Turn("user", r.input), Turn("model", data.answer)>>]

\* res.json({answer, citations, conversationHistory}) of chatWithDocument
ChatResponse(r, data, conversationHistory) ==
    [NoResp EXCEPT !.op = "chat", !.status = 200, !.request = r,
                   !.answer = data.answer, !.citations = data.citations,
                   !.conversationHistory = conversationHistory]

\* variant: the handler is suspended once more between its two pushes
ChatRepliedSplit(r, outcome) ==
    /\ r \in InFlight
    /\ r.op = "chat"
    /\ \/ /\ r.pc = "openai"
          /\ LET result == AskResult(outcome)
             IN  IF ~result.success \/ ~result.hasData
                 THEN /\ lastResp' = ErrorRespOf(r, 500, result.error)
                      /\ Resume(r)
                      /\ UNCHANGED <<heap, chatOk>>
                 ELSE /\ heap' = [heap EXCEPT ![r.session].conversationHistory =
                                     Append(@, Turn("user", r.input))]
                      /\ req' = (req (-) SetToBag({r}))
                                    (+) SetToBag({[r EXCEPT !.pc = "pushed",
                                                     !.error = "",
                                                     !.messages = result.data.answer]})
                      /\ UNCHANGED <<lastResp, chatOk, started>>
       \/ /\ r.pc = "pushed"
          /\ outcome.throws
          /\ heap' = [heap EXCEPT ![r.session].conversationHistory =
                         Append(@, Turn("model", r.messages))]
          /\ lastResp' = [NoResp EXCEPT !.op = "chat", !.status = 200,
                             !.request = r, !.answer = r.messages,
                             !.conversationHistory =
                                 heap'[r.session].conversationHistory]
          /\ chatOk' = [chatOk EXCEPT ![r.session] = @ + 1]
          /\ Resume(r)
    /\ UNCHANGED <<documentSessions, disk, issued, apiKey, arg, out, app, localStorage, NODE_ENV>>

\* chatWithDocument from the return of the completion call: askQuestion
\* parses, the handler pushes the two turns on the session it holds and
\* answers with the session's history
ChatReplied(r, outcome) ==
    /\ r \in InFlight
    /\ r.pc = "openai"
    /\ r.op = "chat"
    /\ LET session == r.session
           result == AskResult(outcome)
       IN  IF ~result.success \/ ~result.hasData
           THEN /\ lastResp' = ErrorRespOf(r, 500, result.error)
                /\ UNCHANGED <<heap, chatOk>>
           ELSE /\ heap' = [heap EXCEPT ![session].conversationHistory =
                               AppendTurns(@, r.input, result.data.answer)]
                /\ lastResp' = ChatResponse(r, result.data,
                                            heap'[session].conversationHistory)
                /\ chatOk' = [chatOk EXCEPT ![session] = @ + 1]
    /\ Resume(r)
    /\ UNCHANGED <<documentSessions, disk, issued, apiKey, arg, out, app, localStorage, NODE_ENV>>

\* ------------------------------------------------- summarize and simplify
\* generateSummary before its `await`
SummaryPrecheck(documentText) ==
    IF IsBlank(documentText) THEN "Document text is empty"
    ELSE IF ~apiKey THEN "OPENAI_API_KEY is not configured"
    ELSE ""

\* simplifyText before its `await`
SimplifyPrecheck(text) ==
    IF IsBlank(text) THEN "Text to simplify cannot be empty"
    ELSE IF ~apiKey THEN "OPENAI_API_KEY is not configured"
    ELSE ""

\* generateSummary / simplifyText from the return of the completion call
TextResult(outcome, error) ==
    IF outcome.throws
    THEN [success |-> FALSE, data |-> <<>>, error |-> error]
    ELSE [success |-> TRUE, data |-> outcome.content, error |-> ""]

\* summarizeDocument up to the completion call of generateSummary
SummarizeStart(sessionId) ==
    /\ IF sessionId = NoId
       THEN /\ lastResp' = ErrorResp("summarize", sessionId, <<>>, 400, "sessionId is required")
            /\ UNCHANGED <<req, started>>
       ELSE IF Get(sessionId) = NoId
       THEN /\ lastResp' = ErrorResp("summarize", sessionId, <<>>, 404,
                                     "Invalid sessionId or session expired")
            /\ UNCHANGED <<req, started>>
       ELSE LET session == Get(sessionId)
                error == SummaryPrecheck(heap[session].text)
            IN  IF error # ""
                THEN /\ lastResp' = ErrorResp("summarize", sessionId, <<>>, 500, error)
                     /\ UNCHANGED <<req, started>>
                ELSE /\ Suspend([Request EXCEPT !.pc = "openai", !.op = "summarize",
                                    !.sessionId = sessionId, !.session = session,
                                    !.messages = <<Turn("system", <<>>),
                                                   Turn("user", heap[session].text)>>])
                     /\ UNCHANGED lastResp
    /\ UNCHANGED <<documentSessions, heap, disk, issued, apiKey, arg, out, app, localStorage, NODE_ENV, chatOk>>

\* variant: the summary is kept in the session's history as a model turn
SummarizeRepliedRecording(r, outcome) ==
    /\ r \in InFlight
    /\ r.pc = "openai"
    /\ r.op = "summarize"
    /\ LET result == TextResult(outcome, "Failed to generate summary")
       IN  IF ~result.success \/ ~Truthy(result.data)
           THEN /\ lastResp' = ErrorRespOf(r, 500,
                                   IF result.error # "" THEN result.error
                                   ELSE "Failed to generate summary")
                /\ UNCHANGED heap
           ELSE /\ lastResp' = [NoResp EXCEPT !.op = "summarize", !.status = 200,
                                   !.request = r, !.summary = result.data]
                /\ heap' = [heap EXCEPT ![r.session].conversationHistory =
                                Append(@, Turn("model", result.data))]
    /\ Resume(r)
    /\ UNCHANGED <<documentSessions, disk, issued, apiKey, arg, out, app, localStorage, NODE_ENV, chatOk>>

\* summarizeDocument from the return of the completion call
SummarizeReplied(r, outcome) ==
    /\ r \in InFlight
    /\ r.pc = "openai"
    /\ r.op = "summarize"
    /\ LET result == TextResult(outcome, "Failed to generate summary")
       IN  lastResp' =
               IF ~result.success \/ ~Truthy(result.data)
               THEN ErrorRespOf(r, 500,
                                IF result.error # "" THEN result.error
                                ELSE "Failed to generate summary")
               ELSE [NoResp EXCEPT !.op = "summarize", !.status = 200,
                        !.request = r, !.summary = result.data]
    /\ Resume(r)
    /\ UNCHANGED <<documentSessions, heap, disk, issued, apiKey, arg, out, app, localStorage, NODE_ENV, chatOk>>

\* simplifyTextSection up to the completion call of simplifyText
SimplifyStart(sessionId, text) ==
    /\ IF sessionId = NoId \/ ~Truthy(text)
       THEN /\ lastResp' = ErrorResp("simplify", sessionId, text, 400, "sessionId and text are required")
            /\ UNCHANGED <<req, started>>
       ELSE IF Get(sessionId) = NoId
       THEN /\ lastResp' = ErrorResp("simplify", sessionId, text, 404,
                                     "Invalid sessionId or session expired")
            /\ UNCHANGED <<req, started>>
       ELSE LET session == Get(sessionId)
                error == SimplifyPrecheck(text)
            IN  IF error # ""
                THEN /\ lastResp' = ErrorResp("simplify", sessionId, text, 500, error)
                     /\ UNCHANGED <<req, started>>
                ELSE /\ Suspend([Request EXCEPT !.pc = "openai", !.op = "simplify",
                                    !.sessionId = sessionId, !.input = text,
                                    !.session = session,
                                    !.messages = <<Turn("system", <<>>),
                                                   Turn("user", heap[session].text \o text)>>])
                     /\ UNCHANGED lastResp
    /\ UNCHANGED <<documentSessions, heap, disk, issued, apiKey, arg, out, app, localStorage, NODE_ENV, chatOk>>

\* simplifyTextSection from the return of the completion call
SimplifyReplied(r, outcome) ==
    /\ r \in InFlight
    /\ r.pc = "openai"
    /\ r.op = "simplify"
    /\ LET result == TextResult(outcome, "Failed to simplify text")
       IN  lastResp' =
               IF ~result.success \/ ~Truthy(result.data)
               THEN ErrorRespOf(r, 500,
                                IF result.error # "" THEN result.error
                                ELSE "Failed to simplify text")
               ELSE [NoResp EXCEPT !.op = "simplify", !.status = 200,
                        !.request = r, !.simplified = result.data]
    /\ Resume(r)
    /\ UNCHANGED <<documentSessions, heap, disk, issued, apiKey, arg, out, app, localStorage, NODE_ENV, chatOk>>

\* ------------------------------------------------------------------ export
Block(kind, n, content) == [kind |-> kind, n |-> n, content |-> content]

\* variant: the headings are numbered by the index of the question turn
RECURSIVE PairBlocksByIndex(_, _)
PairBlocksByIndex(conversationHistory, i) ==
    IF i >= Len(conversationHistory) THEN <<>>
    ELSE (IF i + 2 <= Len(conversationHistory)
          THEN <<Block("question", i + 1, conversationHistory[i + 1].content),
                 Block("answer", 0, conversationHistory[i + 2].content),
                 Block("rule", 0, <<>>)>>
          ELSE <<>>)
         \o PairBlocksByIndex(conversationHistory, i + 2)

\* the for loop of exportNotes from index i (0-based, step 2): a heading, an
\* answer and a rule for every index where both turns exist
RECURSIVE PairBlocks(_, _)
PairBlocks(conversationHistory, i) ==
    IF i >= Len(conversationHistory) THEN <<>>
    ELSE (IF i + 2 <= Len(conversationHistory)
          THEN <<Block("question", (i \div 2) + 1, conversationHistory[i + 1].content),
                 Block("answer", 0, conversationHistory[i + 2].content),
                 Block("rule", 0, <<>>)>>
          ELSE <<>>)
         \o PairBlocks(conversationHistory, i + 2)

\* variant: the notes are dated with the time of the export
MarkdownDatedNow(session) ==
    <<Block("title", 0, <<>>), Block("document", 0, session.filename),
      Block("date", Now, <<>>), Block("rule", 0, <<>>)>>
        \o (IF Len(session.conversationHistory) = 0
            THEN <<Block("none", 0, <<>>)>>
            ELSE PairBlocks(session.conversationHistory, 0))

\* the markdown exportNotes builds, block by block
Markdown(session) ==
    <<Block("title", 0, <<>>), Block("document", 0, session.filename),
      Block("date", session.uploadedAt, <<>>), Block("rule", 0, <<>>)>>
        \o (IF Len(session.conversationHistory) = 0
            THEN <<Block("none", 0, <<>>)>>
            ELSE PairBlocks(session.conversationHistory, 0))

\* filename.replace(/\.[^/.]+$/, "")
StripExtension(filename) ==
    LET dots == {i \in 1..Len(filename) : filename[i] = "."}
    IN  IF dots = {} THEN filename
        ELSE LET d == CHOOSE i \in dots : \A j \in dots : j <= i
             IN  IF d < Len(filename)
                    /\ \A k \in (d + 1)..Len(filename) : filename[k] # "/"
                 THEN SubSeq(filename, 1, d - 1)
                 ELSE filename

NotesSuffix == <<"_", "n", "o", "t", "e", "s", ".", "m", "d">>

\* exportNotes: no suspension point
ExportNotes(sessionId) ==
    /\ lastResp' =
           IF sessionId = NoId
           THEN ErrorResp("export", sessionId, <<>>, 400, "sessionId is required")
           ELSE IF Get(sessionId) = NoId
           THEN ErrorResp("export", sessionId, <<>>, 404, "Invalid sessionId or session expired")
           ELSE LET session == heap[Get(sessionId)]
                IN  [NoResp EXCEPT !.op = "export", !.status = 200,
                        !.request = [Request EXCEPT !.op = "export",
                                                    !.sessionId = sessionId],
                        !.markdown = Markdown(session),
                        !.filename = StripExtension(session.filename) \o NotesSuffix]
    /\ UNCHANGED <<documentSessions, heap, disk, issued, apiKey, arg, out, app, localStorage, NODE_ENV, req, chatOk, started>>

\* ------------------------------------------------------------------ delete
\* deleteDocument up to `await fs.unlink(session.filepath)`
DeleteStart(fileId) ==
    /\ IF fileId = NoId
       THEN /\ lastResp' = ErrorResp("delete", fileId, <<>>, 400, "fileId is required")
            /\ UNCHANGED <<req, started>>
       ELSE IF Get(fileId) = NoId
       THEN /\ lastResp' = ErrorResp("delete", fileId, <<>>, 404,
                                     "Invalid fileId or document already deleted")
            /\ UNCHANGED <<req, started>>
       ELSE /\ Suspend([Request EXCEPT !.pc = "unlink", !.op = "delete",
                                       !.sessionId = fileId, !.session = Get(fileId)])
            /\ UNCHANGED lastResp
    /\ UNCHANGED <<documentSessions, heap, disk, issued, apiKey, arg, out, app, localStorage, NODE_ENV, chatOk>>

\* deleteDocument from the return of fs.unlink, whose failure is only logged
DeleteUnlinked(r) ==
    /\ r \in InFlight
    /\ r.pc = "unlink"
    /\ r.op = "delete"
    /\ \E u \in Unlink(heap[r.session].filepath) :
          /\ disk' = u.disk
          /\ lastResp' = [NoResp EXCEPT !.op = "delete", !.status = 200,
                             !.request = r,
                             !.message = "Document deleted successfully",
                             !.unlink = IF u.ok THEN "ok" ELSE "failed"]
    /\ documentSessions' = MapDelete(documentSessions, r.sessionId)
    /\ Resume(r)
    /\ UNCHANGED <<heap, issued, apiKey, arg, out, app, localStorage, NODE_ENV, chatOk>>

\* ----------------------------------------------------------- specification
\* the ids a client can send: none, one never issued, those issued so far
SessionIdArgs == {NoId, FabricatedId} \cup issued

Next ==
    \/ UploadNoFile
    \/ \E f \in 1..Len(UploadFiles) : UploadRejected(f)
    \/ \E f \in 1..Len(UploadFiles) : UploadStart(f)
    \/ \E r \in InFlight : UploadProcessed(r)
    \/ \E r \in InFlight : UploadCleanedUp(r)
    \/ \E sessionId \in SessionIdArgs, question \in Questions :
          ChatStart(sessionId, question)
    \/ \E r \in InFlight, outcome \in ModelOutcomes : ChatReplied(r, outcome)
    \/ \E sessionId \in SessionIdArgs : SummarizeStart(sessionId)
    \/ \E r \in InFlight, outcome \in ModelOutcomes : SummarizeReplied(r, outcome)
    \/ \E sessionId \in SessionIdArgs, text \in Questions :
          SimplifyStart(sessionId, text)
    \/ \E r \in InFlight, outcome \in ModelOutcomes : SimplifyReplied(r, outcome)
    \/ \E sessionId \in SessionIdArgs : ExportNotes(sessionId)
    \/ \E fileId \in SessionIdArgs : DeleteStart(fileId)
    \/ \E r \in InFlight : DeleteUnlinked(r)

Spec == Init /\ [][Next]_vars

\* ------------------------------------------------------ unexpected errors
\* exceptions no handler anticipates: what a statement inside a handler's
\* try block or a middleware before the routes can throw
Exceptions ==
    {[name |-> "TypeError",
      message |-> "Cannot destructure property 'sessionId' of 'req.body' as it is undefined."],
     [name |-> "SyntaxError",
      message |-> "Unexpected token } in JSON at position 12"],
     [name |-> "ValidationError", message |-> "request failed validation"],
     [name |-> "UnauthorizedError", message |-> "No authorization token was found"]}

HandlerOps == {"upload", "chat", "summarize", "simplify", "export", "delete"}

\* the catch block that ends every handler: res.status(500).json({error:
\* "Server error", message: error.message})
CatchAll(err) == [status |-> 500, message |-> err.message]

\* a statement in the try block of the handler of op throws err before the
\* handler has changed anything or reached an await
HandlerThrew(op, err) ==
    /\ lastResp' = [NoResp EXCEPT !.op = op,
                                  !.status = CatchAll(err).status,
                                  !.message = CatchAll(err).message,
                                  !.thrown = err.message,
                                  !.request = [Request EXCEPT !.op = op]]
    /\ UNCHANGED <<documentSessions, heap, disk, issued, apiKey, req, chatOk,
                   started, arg, out, app, localStorage, NODE_ENV>>

\* the global error handler of index.ts
GlobalErrorHandler(err) ==
    IF err.name = "ValidationError"
    THEN [status |-> 400, message |-> err.message]
    ELSE IF err.name = "UnauthorizedError"
    THEN [status |-> 401, message |-> "Authentication required"]
    ELSE [status |-> 500,
          message |-> IF NODE_ENV = "production"
                      THEN "An unexpected error occurred"
                      ELSE err.message]

\* a middleware before the routes passes err on: the global error handler
\* answers
MiddlewareThrew(err) ==
    /\ lastResp' = [NoResp EXCEPT !.op = "app",
                                  !.status = GlobalErrorHandler(err).status,
                                  !.message = GlobalErrorHandler(err).message,
                                  !.thrown = err.message,
                                  !.request = [Request EXCEPT !.op = "app"]]
    /\ UNCHANGED <<documentSessions, heap, disk, issued, apiKey, req, chatOk,
                   started, arg, out, app, localStorage, NODE_ENV>>

\* the server started in either mode
FaultInit ==
    /\ documentSessions = <<>>
    /\ heap = [i \in Ids |-> NoSession]
    /\ disk = {}
    /\ issued = {}
    /\ apiKey \in BOOLEAN
    /\ req = EmptyBag
    /\ lastResp = NoResp
    /\ chatOk = [i \in Ids |-> 0]
    /\ started = 0
    /\ arg = NoArg
    /\ out = NoOut
    /\ app = AppState
    /\ localStorage = [key \in {} |-> <<>>]
    /\ NODE_ENV \in {"production", "development"}

\* the program with handlers and middleware that can throw
FaultNext ==
    \/ Next
    \/ \E op \in HandlerOps, err \in Exceptions : HandlerThrew(op, err)
    \/ \E err \in Exceptions : MiddlewareThrew(err)

FaultSpec == FaultInit /\ [][FaultNext]_vars

\* ------------------------------------------------ the browser client (App)
SESSION_STORAGE_KEY == "ai-doc-assistant-session"
DOCUMENT_NAME_STORAGE_KEY == "ai-doc-assistant-document-name"

\* localStorage.getItem(key): the stored string, <<>> for null
getItem(key) == IF key \in DOMAIN localStorage THEN localStorage[key] ELSE <<>>

\* localStorage.setItem(key, value) on the storage store
setItem(store, key, value) ==
    [k \in DOMAIN store \cup {key} |-> IF k = key THEN value ELSE store[k]]

\* localStorage.removeItem(key) on the storage store
removeItem(store, key) == [k \in DOMAIN store \ {key} |-> store[k]]

DefaultDocumentName == <<"D", "o", "c", "u", "m", "e", "n", "t">>

\* handleUploadSuccess(newSessionId, filename)
handleUploadSuccess(newSessionId, filename) ==
    LET docName == IF Truthy(filename) THEN filename ELSE DefaultDocumentName
    IN  /\ app' = [app EXCEPT !.sessionId = newSessionId,
                              !.documentUploaded = TRUE,
                              !.documentName = docName,
                              !.handled = @ \cup {newSessionId}]
        /\ localStorage' = setItem(setItem(localStorage, SESSION_STORAGE_KEY,
                                           <<newSessionId>>),
                                   DOCUMENT_NAME_STORAGE_KEY, docName)

\* onSuccess of FileUpload's upload mutation: the 200 of POST /upload reaches
\* the upload view, which hands it to App
UploadOnSuccess ==
    /\ ~app.documentUploaded
    /\ lastResp.op = "upload"
    /\ lastResp.status = 200
    /\ lastResp.sessionId \notin app.handled
    /\ handleUploadSuccess(lastResp.sessionId, lastResp.filename)
    /\ UNCHANGED <<documentSessions, heap, disk, issued, apiKey, req, lastResp,
                   chatOk, started, arg, out, NODE_ENV>>

\* the effect App runs when it is mounted (the page is loaded again): the
\* state starts over and the session saved in localStorage is restored
AppMounted ==
    /\ app' = IF Truthy(getItem(SESSION_STORAGE_KEY))
              THEN [AppState EXCEPT
                       !.sessionId = getItem(SESSION_STORAGE_KEY)[1],
                       !.documentUploaded = TRUE,
                       !.documentName =
                           IF Truthy(getItem(DOCUMENT_NAME_STORAGE_KEY))
                           THEN getItem(DOCUMENT_NAME_STORAGE_KEY)
                           ELSE DefaultDocumentName,
                       !.handled = app.handled]
              ELSE [AppState EXCEPT !.handled = app.handled]
    /\ UNCHANGED <<documentSessions, heap, disk, issued, apiKey, req, lastResp,
                   chatOk, started, arg, out, localStorage, NODE_ENV>>

\* the "New Document" button, shown once a document is uploaded
handleNewDocumentClick ==
    /\ app.documentUploaded
    /\ ~app.showNewDocumentDialog
    /\ app' = [app EXCEPT !.showNewDocumentDialog = TRUE]
    /\ UNCHANGED <<documentSessions, heap, disk, issued, apiKey, req, lastResp,
                   chatOk, started, arg, out, localStorage, NODE_ENV>>

\* "Cancel" in the dialog: onOpenChange(false)
CancelNewDocument ==
    /\ app.showNewDocumentDialog
    /\ app' = [app EXCEPT !.showNewDocumentDialog = FALSE]
    /\ UNCHANGED <<documentSessions, heap, disk, issued, apiKey, req, lastResp,
                   chatOk, started, arg, out, localStorage, NODE_ENV>>

\* "Continue" in the dialog: handleConfirmNewDocument
handleConfirmNewDocument ==
    /\ app.showNewDocumentDialog
    /\ app' = [app EXCEPT !.sessionId = NoId, !.documentUploaded = FALSE,
                          !.documentName = <<>>,
                          !.showNewDocumentDialog = FALSE]
    /\ localStorage' = removeItem(removeItem(localStorage, SESSION_STORAGE_KEY),
                                  DOCUMENT_NAME_STORAGE_KEY)
    /\ UNCHANGED <<documentSessions, heap, disk, issued, apiKey, req, lastResp,
                   chatOk, started, arg, out, NODE_ENV>>

\* what the user can type into the chat box and the simplify dialog: the
\* components send nothing while the text is blank
TypedTexts == {text \in Questions : ~IsBlank(text)}

\* one browser against the server: the upload view sends files while no
\* document is uploaded, the analysis view sends its requests with the
\* sessionId App holds, and the server's handlers run on
AppNext ==
    \/ ~app.documentUploaded /\ \E f \in 1..Len(UploadFiles) : UploadStart(f)
    \/ \E r \in InFlight : UploadProcessed(r)
    \/ \E r \in InFlight : UploadCleanedUp(r)
    \/ UploadOnSuccess
    \/ app.documentUploaded /\ \E question \in TypedTexts :
          ChatStart(app.sessionId, question)
    \/ \E r \in InFlight, outcome \in ModelOutcomes : ChatReplied(r, outcome)
    \/ app.documentUploaded /\ SummarizeStart(app.sessionId)
    \/ \E r \in InFlight, outcome \in ModelOutcomes : SummarizeReplied(r, outcome)
    \/ app.documentUploaded /\ \E text \in TypedTexts :
          SimplifyStart(app.sessionId, text)
    \/ \E r \in InFlight, outcome \in ModelOutcomes : SimplifyReplied(r, outcome)
    \/ app.documentUploaded /\ ExportNotes(app.sessionId)
    \/ AppMounted
    \/ handleNewDocumentClick
    \/ CancelNewDocument
    \/ handleConfirmNewDocument

AppSpec == Init /\ [][AppNext]_vars

\* ------------------------------------------- functions run on their own
\* the program at rest: nothing uploaded, nothing in flight
Idle ==
    /\ documentSessions = <<>>
    /\ heap = [i \in Ids |-> NoSession]
    /\ disk = {}
    /\ issued = {}
    /\ apiKey = TRUE
    /\ req = EmptyBag
    /\ lastResp = NoResp
    /\ chatOk = [i \in Ids |-> 0]
    /\ started = 0
    /\ app = AppState
    /\ localStorage = [key \in {} |-> <<>>]
    /\ NODE_ENV = "development"

program == <<documentSessions, heap, disk, issued, apiKey, req, lastResp,
             chatOk, started, app, localStorage, NODE_ENV>>

\* the pieces of a raw model output: the two markers in several cases, white
\* space, plain text, lone brackets and bracketed labels
Tokens == {<<"A", "n", "s", "w", "e", "r", ":">>,
           <<"C", "I", "T", "A", "T", "I", "O", "N", "S", ":">>,
           <<"C", "i", "t", "a", "t", "i", "o", "n", "s", ":">>,
           <<" ">>, <<"x">>, <<"[">>, <<"]">>,
           <<"[", "a", "]">>, <<"[", " ", "b", " ", "]">>}

RECURSIVE Flatten(_)
Flatten(pieces) ==
    IF pieces = <<>> THEN <<>> ELSE Head(pieces) \o Flatten(Tail(pieces))

\* completion.choices[0]?.message?.content || "": the raw outputs of the model
RawOutputs ==
    {Flatten(pieces) : pieces \in UNION {[1..n -> Tokens] : n \in 0..MaxTokens}}

ParserInit == Idle /\ arg \in RawOutputs /\ out = NoOut

\* askQuestion from the return of the completion call, on the raw output
RunParse ==
    /\ ~out.done
    /\ out' = Returned(AskResult([throws |-> FALSE, content |-> arg]))
    /\ UNCHANGED <<program, arg>>

ParserNext == RunParse

ParserSpec == ParserInit /\ [][ParserNext]_vars

\* what a stored file can hold: blanks, line ends and text
ContentChars == {" ", "\n", "d"}

Contents == UNION {[1..n -> ContentChars] : n \in 0..MaxContent}

\* the calls of processDocument: on a path that exists or not, with a
\* declared type, on a file with some content that can be read or not
ProcessArgs ==
    [exists : BOOLEAN,
     mimetype : ALLOWED_MIME_TYPES \cup {"application/octet-stream"},
     content : Contents,
     unreadable : BOOLEAN]

ProcessorInit == Idle /\ arg \in ProcessArgs /\ out = NoOut

\* processDocument runs on the file
RunProcessDocument ==
    /\ ~out.done
    /\ out' = Returned(processDocument(arg.exists, arg.mimetype, arg.content,
                                        arg.unreadable))
    /\ UNCHANGED <<program, arg>>

ProcessorNext == RunProcessDocument

ProcessorSpec == ProcessorInit /\ [][ProcessorNext]_vars

\* extracted texts of every length up to MaxText, in letters or all dots
ExtractedTexts ==
    {[k \in 1..n |-> LowerChars[(k % 26) + 1]] : n \in 0..MaxText}
        \cup {[k \in 1..n |-> "."] : n \in 0..MaxText}

PreviewInit == Idle /\ arg \in ExtractedTexts /\ out = NoOut

\* uploadDocument takes the preview of the extracted text
RunPreview ==
    /\ ~out.done
    /\ out' = Returned(Preview(arg))
    /\ UNCHANGED <<program, arg>>

PreviewNext == RunPreview

PreviewSpec == PreviewInit /\ [][PreviewNext]_vars

\* the file parts a client can send to POST /upload
BoundaryNames == {<<"a", ".", "p", "d", "f">>, <<"a", ".", "P", "D", "F">>,
                  <<"a", ".", "d", "o", "c", "x">>, <<"a", ".", "t", "x", "t">>,
                  <<"a", ".", "e", "x", "e">>, <<"a">>, <<".", "p", "d", "f">>,
                  <<"a", ".", "p", "d", "f", ".", "e", "x", "e">>}

BoundaryArgs ==
    [originalname : BoundaryNames,
     mimetype : ALLOWED_MIME_TYPES \cup {"application/octet-stream"},
     fieldname : {FileField, "doc"},
     size : {1, MAX_FILE_SIZE, MAX_FILE_SIZE + 1}]

BoundaryInit == Idle /\ arg \in BoundaryArgs /\ out = NoOut

\* the middleware of POST /upload runs on the file part
RunUploadBoundary ==
    /\ ~out.done
    /\ out' = Returned(UploadBoundary(arg))
    /\ UNCHANGED <<program, arg>>

BoundaryNext == RunUploadBoundary

BoundarySpec == BoundaryInit /\ [][BoundaryNext]_vars

\* ------------------------------------------------------------------ claims
HistoryOf(i) == heap[i].conversationHistory

Sessions == {i \in Ids : heap[i] # NoSession}

\* the turns of a history come as (user, model) pairs
Paired(h) ==
    /\ Len(h) % 2 = 0
    /\ \A k \in 1..Len(h) : h[k].role = (IF k % 2 = 1 THEN "user" ELSE "model")

\* C1: in every reachable state every session's history has length 2N, N the
\* chat requests on it answered with 200 (whatever failed chats, summarize,
\* simplify and export calls ran in between), with role user at every even
\* 0-based index and role model right after it.
C1_HistoryPairing ==
    \A i \in Sessions :
        /\ Len(HistoryOf(i)) = 2 * chatOk[i]
        /\ Paired(HistoryOf(i))

\* two chats succeeded on one session and one more request ran
C1_Witness ==
    \E i \in Sessions :
        /\ chatOk[i] = 2
        /\ Len(HistoryOf(i)) = 4
        /\ started = MaxRequests

\* what askQuestion read of the history when it built messages: whole pairs
\* between the system message and the question
WholePairsSent(messages) ==
    /\ Len(messages) >= 2
    /\ Len(messages) % 2 = 0
    /\ messages[1].role = "system"
    /\ messages[Len(messages)].role = "user"
    /\ \A k \in 2..(Len(messages) - 1) :
          messages[k].role = (IF k % 2 = 0 THEN "user" ELSE "assistant")

\* C2: with several chat requests of one session suspended at their model
\* call, every step that changes a history appends the user turn of one of
\* them immediately followed by the model turn of that same request, and in
\* no state does a history (what export reads) or the messages a chat built
\* from it hold the first turn of a pair without the second.
C2_PairsLandTogether ==
    /\ [](\A i \in Sessions : Paired(HistoryOf(i)))
    /\ [](\A r \in InFlight : r.op = "chat" => WholePairsSent(r.messages))
    /\ [][\A i \in Sessions :
            heap'[i].conversationHistory # heap[i].conversationHistory =>
                \E r \in InFlight :
                    /\ r.op = "chat"
                    /\ r.session = i
                    /\ req' = req (-) SetToBag({r})
                    /\ lastResp'.request = r
                    /\ heap'[i].conversationHistory =
                           heap[i].conversationHistory
                               \o <<Turn("user", r.input),
                                    Turn("model", lastResp'.answer)>>]_vars

\* one chat of a session was answered while another chat of that session,
\* started before, is still suspended at its model call
C2_Witness ==
    /\ lastResp.op = "chat"
    /\ lastResp.status = 200
    /\ \E r \in InFlight :
          /\ r.op = "chat"
          /\ r.session = lastResp.request.session
          /\ Len(r.messages) - 2 < Len(HistoryOf(r.session))

\* some session object differs between the two states of a step
SessionChanged == \E i \in Sessions : heap'[i] # heap[i]

\* C3: a chat request that does not succeed (missing field, unknown session,
\* blank question, missing credential, model call throwing) leaves every
\* history as it was: a session object changes only in the step in which a
\* chat's model reply was obtained and parsed and its 200 is sent, and the
\* step that sends a chat's error response changes no session object.
C3_FailedChatLeavesHistory ==
    [][/\ SessionChanged =>
             \E r \in InFlight, outcome \in ModelOutcomes :
                 /\ ChatReplied(r, outcome)
                 /\ ~outcome.throws
                 /\ lastResp'.op = "chat"
                 /\ lastResp'.status = 200
                 /\ lastResp'.answer = ParseResponse(outcome.content).answer
       /\ lastResp'.op = "chat" /\ lastResp'.status # 200 /\ lastResp' # lastResp
             => heap' = heap]_vars

\* the model call of a chat threw on a session that already has a history
C3_Witness ==
    /\ lastResp.op = "chat"
    /\ lastResp.status = 500
    /\ lastResp.message = "Failed to answer question"
    /\ Len(HistoryOf(lastResp.request.session)) = 2

\* the handlers that take a session id
SessionOps == {"chat", "summarize", "simplify", "export", "delete"}

\* the non-empty ids a client can send that are not a key of the store: never
\* issued, not stored yet, or deleted
UnknownIds == {i \in SessionIdArgs : i # NoId /\ i \notin Keys}

\* a step in which one of these handlers answers without reaching an await
AnsweredAtOnce ==
    /\ lastResp' # lastResp
    /\ lastResp'.request.pc = ""
    /\ lastResp'.op \in SessionOps

\* the requests that are suspended in this step
NewlySuspended == {r \in BagToSet(req') : CopiesIn(r, req') > CopiesIn(r, req)}

\* nothing but the response is touched: no call is awaited, store, sessions
\* and files are as before
OnlyAnswers ==
    /\ req' = req
    /\ started' = started
    /\ documentSessions' = documentSessions
    /\ heap' = heap
    /\ disk' = disk

\* C4 as stated: every chat, summarize, simplify, export and delete with a
\* non-empty id that is not in the store answers 404 at once, awaits no call
\* and leaves the store as it was.
C4_Original ==
    [][/\ AnsweredAtOnce /\ lastResp'.request.sessionId \in UnknownIds
             => lastResp'.status = 404 /\ OnlyAnswers
       /\ \A r \in NewlySuspended :
             r.op \in SessionOps => r.sessionId \notin UnknownIds]_vars

\* the body field a handler requires besides the id is there
RequiredFieldPresent(op, input) == op \in {"chat", "simplify"} => Truthy(input)

\* C4 (amended): with a non-empty id that is not in the store, summarize,
\* export and delete, and chat and simplify whose question / text is
\* non-empty, answer 404 at once, await no call and leave the store as it
\* was; chat and simplify whose question / text is missing or empty answer
\* 400 instead, also without a call and with the store as it was.
C4_Amended ==
    [][/\ AnsweredAtOnce /\ lastResp'.request.sessionId \in UnknownIds
             => /\ OnlyAnswers
                /\ lastResp'.status =
                       (IF RequiredFieldPresent(lastResp'.op, lastResp'.request.input)
                        THEN 404 ELSE 400)
       /\ \A r \in NewlySuspended :
             r.op \in SessionOps => r.sessionId \notin UnknownIds]_vars

\* a chat with a question was answered 404 for the id of a deleted session
\* while the store holds another session
C4_Witness ==
    /\ lastResp.op = "chat"
    /\ lastResp.status = 404
    /\ Truthy(lastResp.request.input)
    /\ lastResp.request.sessionId \in issued \ Keys
    /\ heap[lastResp.request.sessionId] # NoSession
    /\ Keys # {}

\* a step in which a chat is answered 200
ChatSucceeds ==
    /\ lastResp' # lastResp
    /\ lastResp'.op = "chat"
    /\ lastResp'.status = 200

\* C5: the conversationHistory of every 200 chat response has even length of
\* at least 2 and ends with (user, the request's question), (model, the
\* returned answer), and it is the history the session has once the two
\* turns are pushed, whatever other chats of the session were answered while
\* this one waited for the model.
C5_ResponseCarriesPostAppendHistory ==
    /\ [](lastResp.op = "chat" /\ lastResp.status = 200 =>
            LET h == lastResp.conversationHistory
            IN  /\ Len(h) >= 2
                /\ Len(h) % 2 = 0
                /\ h[Len(h) - 1] = Turn("user", lastResp.request.input)
                /\ h[Len(h)] = Turn("model", lastResp.answer))
    /\ [][ChatSucceeds =>
            /\ lastResp'.conversationHistory =
                   heap'[lastResp'.request.session].conversationHistory
            /\ lastResp'.conversationHistory =
                   heap[lastResp'.request.session].conversationHistory
                       \o <<Turn("user", lastResp'.request.input),
                            Turn("model", lastResp'.answer)>>]_vars

\* a 200 chat response to a request that read an empty history when it
\* started: the response's first pair was pushed by another request of the
\* session while this one waited for the model
C5_Witness ==
    /\ lastResp.op = "chat"
    /\ lastResp.status = 200
    /\ Len(lastResp.conversationHistory) = 4
    /\ Len(lastResp.request.messages) = 2

\* C6: every push on a conversationHistory is applied to a session that is in
\* the store at the moment of the push, and a chat is answered 200 only if
\* the session it held across its model call is still stored under its id.
C6_AppendOnlyToStoredSession ==
    [][/\ \A i \in Sessions :
             heap'[i].conversationHistory # heap[i].conversationHistory =>
                 \E k \in Keys : documentSessions[k] = i
       /\ ChatSucceeds =>
             /\ lastResp'.request.sessionId \in Keys
             /\ documentSessions[lastResp'.request.sessionId] =
                    lastResp'.request.session]_vars

\* a step in which an upload is answered 200
UploadSucceeds ==
    /\ lastResp' # lastResp
    /\ lastResp'.op = "upload"
    /\ lastResp'.status = 200

\* C7: the step that answers an upload with 200 adds exactly one key to the
\* store, the sessionId of the response; no session was ever stored under
\* that id before; the session stored under it carries that id, an empty
\* history and the text extracted from the uploaded file; every other entry
\* of the store and every other session object is as before; and no other
\* step adds a key to the store.
C7_UploadCreatesOneFreshSession ==
    [][/\ UploadSucceeds =>
             LET id == lastResp'.sessionId
                 file == UploadFiles[lastResp'.request.file]
             IN  /\ id # NoId
                 /\ id \notin Keys
                 /\ heap[id] = NoSession
                 /\ \A j \in Sessions : heap[j].sessionId # id
                 /\ DOMAIN documentSessions' = Keys \cup {id}
                 /\ \A k \in Keys : documentSessions'[k] = documentSessions[k]
                 /\ \A j \in Sessions : heap'[j] = heap[j]
                 /\ heap'[documentSessions'[id]].sessionId = id
                 /\ heap'[documentSessions'[id]].conversationHistory = <<>>
                 /\ heap'[documentSessions'[id]].text = Trim(file.content)
                 /\ heap'[documentSessions'[id]].filename = lastResp'.filename
                 /\ ~IsBlank(file.content)
       /\ DOMAIN documentSessions' \ Keys # {} => UploadSucceeds]_vars

\* an upload was answered 200 while the store holds another session that
\* has a history
C7_Witness ==
    /\ lastResp.op = "upload"
    /\ lastResp.status = 200
    /\ lastResp.sessionId \in Keys
    /\ \E k \in Keys \ {lastResp.sessionId} :
          Len(HistoryOf(documentSessions[k])) = 2

\* a step in which an upload whose file multer had written is answered with
\* an error
UploadFails ==
    /\ lastResp' # lastResp
    /\ lastResp'.op = "upload"
    /\ lastResp'.status # 200
    /\ lastResp'.request.pc # ""

\* the uploads whose extraction has failed and whose handler has not yet
\* answered
FailedUploads == {r \in InFlight : r.op = "upload" /\ r.pc = "unlink"}

\* C8: an upload whose file was written and whose extraction fails is never
\* answered 200 and never stored; its answer is a 400 sent only once the
\* removal of the stored file has returned: the file is gone if the removal
\* succeeded, and if it failed the failure changes nothing about the answer;
\* neither the step that finds the failure nor the step that answers touches
\* the store.
C8_FailedExtractionCleansUp ==
    /\ [](\A r \in FailedUploads :
             /\ r.session \notin Keys
             /\ heap[r.session] = NoSession
             /\ r.error # "")
    /\ [][/\ UploadFails =>
                /\ lastResp'.status = 400
                /\ lastResp'.request \in FailedUploads
                /\ lastResp'.message = lastResp'.request.error
                /\ lastResp'.unlink \in {"ok", "failed"}
                /\ lastResp'.unlink = "ok" =>
                       disk' = disk \ {lastResp'.request.session}
                /\ lastResp'.unlink = "failed" => disk' = disk
                /\ lastResp'.request.session \notin DOMAIN documentSessions'
                /\ documentSessions' = documentSessions
                /\ heap' = heap
          /\ UploadSucceeds =>
                LET file == UploadFiles[lastResp'.request.file]
                IN  ~file.unreadable /\ ~IsBlank(file.content)
          /\ \A r \in NewlySuspended :
                r.op = "upload" /\ r.pc = "unlink" =>
                    /\ documentSessions' = documentSessions
                    /\ heap' = heap
                    /\ lastResp' = lastResp]_vars

\* the extraction of an uploaded file failed, the removal of the file failed
\* too, and the answer is the 400 of the extraction failure
C8_Witness ==
    /\ lastResp.op = "upload"
    /\ lastResp.status = 400
    /\ lastResp.message = "Extraction failed"
    /\ lastResp.unlink = "failed"
    /\ lastResp.request.session \in disk
    /\ lastResp.request.session \notin Keys

\* h is kept as the beginning of g
Extends(g, h) == Len(g) >= Len(h) /\ SubSeq(g, 1, Len(h)) = h

\* C9: every id in the store leads to a session that carries that id, and in
\* every step each id of the store either stays, leading to the same session
\* with the same document and with its history kept (turns are only added
\* at its end), or leaves the store in the step that answers a delete of
\* that id with 200; no upload, chat, summarize, simplify, export or failed
\* request removes it.
C9_SessionStaysUntilDeleted ==
    /\ [](\A k \in Keys :
             /\ heap[documentSessions[k]] # NoSession
             /\ heap[documentSessions[k]].sessionId = k)
    /\ [][\A k \in Keys :
             IF k \in DOMAIN documentSessions'
             THEN LET i == documentSessions[k]
                  IN  /\ documentSessions'[k] = i
                      /\ heap'[i].sessionId = heap[i].sessionId
                      /\ heap'[i].filename = heap[i].filename
                      /\ heap'[i].filepath = heap[i].filepath
                      /\ heap'[i].mimetype = heap[i].mimetype
                      /\ heap'[i].text = heap[i].text
                      /\ Extends(heap'[i].conversationHistory,
                                 heap[i].conversationHistory)
             ELSE /\ lastResp'.op = "delete"
                  /\ lastResp'.status = 200
                  /\ lastResp'.request.pc = "unlink"
                  /\ lastResp'.request.sessionId = k]_vars

\* a session with a history is in the store after a later upload failed
C9_Witness ==
    /\ lastResp.op = "upload"
    /\ lastResp.status = 400
    /\ lastResp.request.pc = "unlink"
    /\ \E k \in Keys :
          /\ k < lastResp.request.session
          /\ Len(HistoryOf(documentSessions[k])) = 2

\* the ids whose session was stored once and has left the store
DeletedIds == {k \in issued : heap[k] # NoSession /\ k \notin Keys}

\* the suspended requests whose handler runs on in this step
Resumed == {r \in InFlight : CopiesIn(r, req') < CopiesIn(r, req)}

\* a delete that found its session is not answered before its fs.unlink
\* returned, and when it returned, however it ended, the id is removed from
\* the store, every other entry stays, and the answer is 200
DeleteRemovesAndSucceeds ==
    /\ AnsweredAtOnce /\ lastResp'.op = "delete" =>
           lastResp'.request.sessionId \notin Keys
    /\ \A r \in Resumed :
           r.op = "delete" =>
               /\ lastResp'.op = "delete"
               /\ lastResp'.status = 200
               /\ lastResp'.request = r
               /\ lastResp'.unlink \in {"ok", "failed"}
               /\ DOMAIN documentSessions' = Keys \ {r.sessionId}
               /\ \A k \in Keys \ {r.sessionId} :
                      documentSessions'[k] = documentSessions[k]

\* C10 as stated: delete of a stored session removes it and answers 200
\* whether or not the file could be removed, and from then on every chat,
\* summarize, simplify, export and delete with that id is answered 404.
C10_Original ==
    [][/\ DeleteRemovesAndSucceeds
       /\ AnsweredAtOnce /\ lastResp'.request.sessionId \in DeletedIds
             => lastResp'.status = 404
       /\ \A r \in NewlySuspended :
             r.op \in SessionOps => r.sessionId \notin DeletedIds]_vars

\* C10 (amended): delete of a stored session removes it and answers 200
\* whether or not the file could be removed, and from then on every
\* summarize, export and delete with that id, every chat with a non-empty
\* question and every simplify with a non-empty text is answered 404, while
\* chat and simplify whose question / text is missing or empty are answered
\* 400; none of them reaches a model call or the file system.
C10_Amended ==
    [][/\ DeleteRemovesAndSucceeds
       /\ AnsweredAtOnce /\ lastResp'.request.sessionId \in DeletedIds
             => lastResp'.status =
                    (IF RequiredFieldPresent(lastResp'.op, lastResp'.request.input)
                     THEN 404 ELSE 400)
       /\ \A r \in NewlySuspended :
             r.op \in SessionOps => r.sessionId \notin DeletedIds]_vars

\* a delete was answered 200 although its fs.unlink failed on a file that
\* was already gone, and the id is out of the store
C10_Witness ==
    /\ lastResp.op = "delete"
    /\ lastResp.status = 200
    /\ lastResp.unlink = "failed"
    /\ heap[lastResp.request.session].filepath \notin disk
    /\ lastResp.request.sessionId \in DeletedIds

\* the standard MIME type of an allowed extension
StandardMime(ext) ==
    IF ext = <<".", "p", "d", "f">> THEN MimePdf
    ELSE IF ext = <<".", "d", "o", "c", "x">> THEN MimeDocx
    ELSE MimeTxt

\* the file's extension is allowed and its declared type is that extension's
ExtensionAndMimeCorrespond(file) ==
    LET ext == ToLowerCase(ExtName(file.originalname))
    IN  ext \in ALLOWED_EXTENSIONS /\ file.mimetype = StandardMime(ext)

\* C11: the upload boundary hands a file on only when its extension is one
\* of .pdf/.docx/.txt and its declared MIME type is the standard type of
\* that extension; every other file is answered with a 400 type error, and a
\* file whose extension and type correspond (sent in the expected field,
\* within the size limit) is handed on.
C11_AcceptsOnlyCorrespondingType ==
    out.done =>
        /\ out.value.accepted => ExtensionAndMimeCorrespond(arg)
        /\ ~out.value.accepted => out.value.status = 400
        /\ ExtensionAndMimeCorrespond(arg) /\ arg.fieldname = FileField
               /\ arg.size <= MAX_FILE_SIZE => out.value.accepted

\* the file is larger than 10 MiB or its extension or declared type is not
\* an allowed one
OversizedOrWrongType(file) ==
    \/ file.size > 10485760
    \/ ToLowerCase(ExtName(file.originalname)) \notin
           {<<".", "p", "d", "f">>, <<".", "d", "o", "c", "x">>, <<".", "t", "x", "t">>}
    \/ file.mimetype \notin {MimePdf, MimeDocx, MimeTxt}

\* a step in which an upload is answered before its handler reached an await
UploadAnsweredAtOnce ==
    /\ lastResp' # lastResp
    /\ lastResp'.op = "upload"
    /\ lastResp'.request.pc = ""
    /\ lastResp'.request.file # 0

\* C12: an upload whose file is larger than 10 MiB or has a disallowed
\* extension or MIME type never waits for processDocument and is never
\* answered 200; it is answered with a 400 in a step that awaits nothing and
\* leaves store, sessions and files as they were.
C12_RejectedBeforeExtraction ==
    /\ [](\A r \in InFlight :
             r.op = "upload" => ~OversizedOrWrongType(UploadFiles[r.file]))
    /\ [](lastResp.op = "upload" /\ lastResp.request.file # 0
             /\ OversizedOrWrongType(UploadFiles[lastResp.request.file])
             => lastResp.status = 400 /\ lastResp.request.pc = "")
    /\ [][UploadAnsweredAtOnce => lastResp'.status = 400 /\ OnlyAnswers]_vars

\* a file of 10,485,761 bytes was answered 400 with the size error while
\* the store holds a session
C12_Witness ==
    /\ lastResp.op = "upload"
    /\ lastResp.status = 400
    /\ lastResp.message = "File too large"
    /\ UploadFiles[lastResp.request.file].size = 10485761
    /\ Keys # {}

\* the positions of a raw output at which a marker starts, in any case
MarkerStarts(raw, marker) == {i \in 1..Len(raw) : MatchAt(raw, i, marker)}

Least(positions) == CHOOSE i \in positions : \A j \in positions : i <= j

\* C13: parsing a raw model output always succeeds; without an ANSWER:
\* marker (in any case) the answer is the whole raw output; with one, the
\* answer is the text after the first marker up to the next CITATIONS: or to
\* the end of the output, trimmed.
C13_AnswerExtraction ==
    out.done =>
        LET starts == MarkerStarts(arg, AnswerMarker)
            answer == out.value.data.answer
        IN  /\ out.value.success
            /\ out.value.hasData
            /\ starts = {} => answer = arg
            /\ starts # {} =>
                   LET from == Least(starts) + Len(AnswerMarker)
                       stops == {j \in MarkerStarts(arg, CitationsMarker) : j >= from}
                       to == IF stops = {} THEN Len(arg) ELSE Least(stops) - 1
                   IN  answer = Trim(SubSeq(arg, from, to))

\* an output with text between ANSWER: and a later CITATIONS: was parsed
C13_Witness ==
    /\ out.done
    /\ MarkerStarts(arg, AnswerMarker) # {}
    /\ \E j \in MarkerStarts(arg, CitationsMarker) :
          j > Least(MarkerStarts(arg, AnswerMarker))
    /\ Len(out.value.data.answer) > 0
    /\ Len(out.value.data.answer) < Len(arg) - 17

\* the labels of a sequence of bracket contents: trimmed, empty ones dropped,
\* every label kept at its first occurrence only
RECURSIVE Labels(_, _)
Labels(contents, sofar) ==
    IF contents = <<>> THEN sofar
    ELSE LET label == Trim(Head(contents))
         IN  Labels(Tail(contents),
                    IF Len(label) = 0 \/ \E k \in 1..Len(sofar) : sofar[k] = label
                    THEN sofar ELSE Append(sofar, label))

\* the contents of the bracketed substrings [..] of a text that hold no
\* bracket themselves, from left to right
RECURSIVE PlainBracketed(_, _)
PlainBracketed(text, i) ==
    IF i > Len(text) THEN <<>>
    ELSE LET closes == {j \in (i + 1)..Len(text) :
                           /\ text[j] = "]"
                           /\ \A k \in (i + 1)..(j - 1) : text[k] \notin {"[", "]"}}
         IN  IF text[i] = "[" /\ closes # {}
             THEN <<SubSeq(text, i + 1, Least(closes) - 1)>>
                      \o PlainBracketed(text, Least(closes) + 1)
             ELSE PlainBracketed(text, i + 1)

\* the contents of the bracketed substrings of a text when a substring runs
\* from an opening bracket to the first closing one after it
RECURSIVE GreedyBracketed(_, _)
GreedyBracketed(text, i) ==
    IF i > Len(text) THEN <<>>
    ELSE LET closes == {j \in (i + 2)..Len(text) :
                           /\ text[j] = "]"
                           /\ \A k \in (i + 1)..(j - 1) : text[k] # "]"}
         IN  IF text[i] = "[" /\ closes # {}
             THEN <<SubSeq(text, i + 1, Least(closes) - 1)>>
                      \o GreedyBracketed(text, Least(closes) + 1)
             ELSE GreedyBracketed(text, i + 1)

\* the CITATIONS: section of a raw output: from the first marker to the end
CitationsSection(raw) ==
    SubSeq(raw, Least(MarkerStarts(raw, CitationsMarker)) + Len(CitationsMarker),
           Len(raw))

NoDuplicates(seq) == \A k, l \in 1..Len(seq) : seq[k] = seq[l] => k = l

\* C14: the returned citations never hold a label twice nor an empty label,
\* and when the raw output has a CITATIONS: section with bracketed labels
\* the citations are the trimmed contents of the bracketed substrings of
\* that section in order of first occurrence (whether a bracketed substring
\* is taken without brackets inside or up to its first closing bracket).
C14_CitationsOfSection ==
    out.done =>
        LET citations == out.value.data.citations
        IN  /\ NoDuplicates(citations)
            /\ \A k \in 1..Len(citations) : Len(citations[k]) > 0
            /\ MarkerStarts(arg, CitationsMarker) # {} =>
                   LET plain == Labels(PlainBracketed(CitationsSection(arg), 1), <<>>)
                       greedy == Labels(GreedyBracketed(CitationsSection(arg), 1), <<>>)
                   IN  plain # <<>> => citations \in {plain, greedy}

\* what the pass over the CITATIONS: section of a raw output produces
SectionPass(raw) ==
    IF MarkerStarts(raw, CitationsMarker) = {} THEN <<>>
    ELSE ScanCitations(Trim(CitationsSection(raw)), 1, <<>>)

\* what a pass over the answer text produces
InlinePass(answer) == ScanCitations(answer, 1, <<>>)

\* C15: when the pass over the CITATIONS: section produced at least one
\* citation the result is exactly what it produced, labels that occur only
\* inline in the answer are not added; when it produced none (no section, or
\* a section without bracketed labels) the result is what the scan of the
\* answer text produces; when both find nothing the result is empty.
C15_TwoPassFallback ==
    out.done =>
        LET citations == out.value.data.citations
            structured == SectionPass(arg)
            inline == InlinePass(out.value.data.answer)
        IN  /\ structured # <<>> => citations = structured
            /\ structured = <<>> => citations = inline
            /\ structured = <<>> /\ inline = <<>> => citations = <<>>

\* the section gave a citation and the answer holds a bracketed label that
\* is not among the citations
C15_Witness ==
    /\ out.done
    /\ MarkerStarts(arg, AnswerMarker) # {}
    /\ SectionPass(arg) # <<>>
    /\ \E k \in 1..Len(InlinePass(out.value.data.answer)) :
          \A l \in 1..Len(out.value.data.citations) :
              out.value.data.citations[l] # InlinePass(out.value.data.answer)[k]

\* C16: processDocument returns a result for every file state and declared
\* type (it has no way out but a result), and the result is never partly
\* filled: success comes with a non-empty, already trimmed text and no
\* error, failure with the empty text and an error message.
C16_ResultNeverPartial ==
    /\ ~out.done => ENABLED RunProcessDocument
    /\ out.done =>
           /\ out.value.success \in BOOLEAN
           /\ out.value.success =>
                  /\ Len(out.value.text) > 0
                  /\ Trim(out.value.text) = out.value.text
                  /\ out.value.error = ""
           /\ ~out.value.success =>
                  /\ out.value.text = <<>>
                  /\ out.value.error # ""

\* a readable file of an allowed type that holds only white space was
\* processed, and the result is a failure
C16_Witness ==
    /\ out.done
    /\ ~out.value.success
    /\ arg.exists
    /\ ~arg.unreadable
    /\ arg.mimetype = MimePdf
    /\ Len(arg.content) = 2

\* C17: for a readable text/plain file, content with a character that is not
\* white space is extracted successfully as the content without its leading
\* and trailing white space, and empty or all-white-space content fails as
\* an empty document instead of succeeding with the empty string.
C17_PlainTextRoundTrip ==
    out.done /\ arg.mimetype = MimeTxt /\ arg.exists /\ ~arg.unreadable =>
        IF \E k \in 1..Len(arg.content) : arg.content[k] \notin WhiteSpace
        THEN /\ out.value.success
             /\ out.value.text = Trim(arg.content)
             /\ Len(out.value.text) > 0
             /\ out.value.text[1] \notin WhiteSpace
             /\ out.value.text[Len(out.value.text)] \notin WhiteSpace
        ELSE /\ ~out.value.success
             /\ out.value.text = <<>>
             /\ out.value.error = "Extraction failed: document is empty"

\* a text file whose content starts and ends with white space was extracted
C17_Witness ==
    /\ out.done
    /\ out.value.success
    /\ arg.mimetype = MimeTxt
    /\ Len(arg.content) = Len(out.value.text) + 2
    /\ arg.content[1] \in WhiteSpace
    /\ arg.content[Len(arg.content)] \in WhiteSpace

\* the handlers whose body carries a text besides the id
TextOps == {"chat", "simplify"}

\* C18: a chat whose question, or a simplify whose text, is empty or all
\* white space is answered with a 400-class status in a step that calls no
\* model and changes no history, and no such request ever waits for the model.
C18_BlankInputIs400 ==
    [][/\ AnsweredAtOnce /\ lastResp'.op \in TextOps
             /\ IsBlank(lastResp'.request.input)
             => /\ lastResp'.status >= 400
                /\ lastResp'.status < 500
                /\ OnlyAnswers
       /\ \A r \in NewlySuspended : r.op \in TextOps => ~IsBlank(r.input)]_vars

\* the completion call returns without content
EmptyCompletion == [throws |-> FALSE, content |-> <<>>]

\* C19: when the completion call of a chat, a summarize or a simplify
\* returns no content, the request is answered 500 and no session object
\* changes (a chat pushes nothing on its history).
C19_EmptyCompletionIsUpstreamError ==
    [][\A r \in InFlight :
          \/ ChatReplied(r, EmptyCompletion)
          \/ SummarizeReplied(r, EmptyCompletion)
          \/ SimplifyReplied(r, EmptyCompletion)
          => /\ lastResp'.request = r
             /\ lastResp'.status = 500
             /\ heap' = heap]_vars

\* the handlers that call the model
ModelOps == {"chat", "summarize", "simplify"}

ConfigurationError == "OPENAI_API_KEY is not configured"

\* C20: while OPENAI_API_KEY is not set no request waits for the model, and
\* a chat, summarize or simplify on a stored session with a non-blank
\* question / text is answered at once with the configuration error, in a
\* step that changes no session, store or file.
C20_NoModelCallWithoutCredential ==
    /\ [](~apiKey => \A r \in InFlight : r.pc # "openai")
    /\ [][~apiKey /\ AnsweredAtOnce /\ lastResp'.op \in ModelOps
             /\ lastResp'.request.sessionId \in Keys
             /\ (lastResp'.op \in TextOps => ~IsBlank(lastResp'.request.input))
             => /\ lastResp'.status = 500
                /\ lastResp'.message = ConfigurationError
                /\ OnlyAnswers]_vars

\* without the credential a chat with a question on a stored session was
\* answered with the configuration error
C20_Witness ==
    /\ ~apiKey
    /\ lastResp.op = "chat"
    /\ lastResp.message = ConfigurationError
    /\ lastResp.request.sessionId \in Keys
    /\ ~IsBlank(lastResp.request.input)
    /\ HistoryOf(documentSessions[lastResp.request.sessionId]) = <<>>
\* the export handler answers with the notes
ExportSucceeds ==
    /\ lastResp' # lastResp
    /\ lastResp'.op = "export"
    /\ lastResp'.status = 200

\* the blocks the notes open with: title, document, date, rule
HeaderBlocks == 4

QuestionHeadings(markdown) == SelectSeq(markdown, LAMBDA b : b.kind = "question")

\* C21: the exported markdown has one numbered heading per consecutive pair
\* of history turns, turn 2i the question and turn 2i+1 the answer, numbered
\* 1..N in history order with N = history.length / 2; with an empty history
\* the body says that no questions were asked yet and has no question heading
C21_ExportPairing ==
    [][ExportSucceeds =>
          LET h == HistoryOf(documentSessions[lastResp'.request.sessionId])
              markdown == lastResp'.markdown
              N == Len(h) \div 2
          IN  /\ Len(h) = 2 * N
              /\ Len(QuestionHeadings(markdown)) = N
              /\ Len(markdown) >= HeaderBlocks + 3 * N
              /\ \A i \in 1..N :
                    /\ markdown[HeaderBlocks + 3 * (i - 1) + 1]
                          = Block("question", i, h[2 * i - 1].content)
                    /\ markdown[HeaderBlocks + 3 * (i - 1) + 2]
                          = Block("answer", 0, h[2 * i].content)
              /\ Len(h) = 0 =>
                    /\ \E k \in 1..Len(markdown) : markdown[k].kind = "none"
                    /\ QuestionHeadings(markdown) = <<>>]_vars

\* notes with two numbered headings were exported
C21_Witness ==
    /\ lastResp.op = "export"
    /\ lastResp.status = 200
    /\ Len(QuestionHeadings(lastResp.markdown)) = 2

\* what an export of the stored session sessionId returns
ExportOf(sessionId) ==
    [markdown |-> Markdown(heap[documentSessions[sessionId]]),
     filename |-> StripExtension(heap[documentSessions[sessionId]].filename)
                      \o NotesSuffix]

\* C22: two exports of the same session with no successful chat or delete
\* between them return identical markdown and filename: every 200 export
\* response is what an export of the stored session returns at that moment,
\* and between two moments at which the session is stored that only changes
\* in a step that answers a chat of this session with 200
C22_IdempotentExport ==
    [][/\ ExportSucceeds =>
             \E sessionId \in DOMAIN documentSessions' :
                 /\ sessionId = lastResp'.request.sessionId
                 /\ lastResp'.markdown = ExportOf(sessionId)'.markdown
                 /\ lastResp'.filename = ExportOf(sessionId)'.filename
       /\ \A sessionId \in Keys :
             sessionId \in DOMAIN documentSessions'
                 /\ ExportOf(sessionId)' # ExportOf(sessionId)
             => /\ ChatSucceeds
                /\ lastResp'.request.sessionId = sessionId]_vars

\* an export is answered for a session with a history after the clock has
\* moved on from the session's upload
C22_Witness ==
    /\ lastResp.op = "export"
    /\ lastResp.status = 200
    /\ lastResp.request.sessionId \in Keys
    /\ lastResp.markdown = ExportOf(lastResp.request.sessionId).markdown
    /\ HistoryOf(documentSessions[lastResp.request.sessionId]) # <<>>
    /\ heap[documentSessions[lastResp.request.sessionId]].uploadedAt < Now

ReadOnlyOps == {"summarize", "simplify", "export"}

\* a step of a summarize, simplify or export handler: it answers, it is
\* suspended at the model call, or it runs on from there
ReadOnlyStep ==
    \/ lastResp' # lastResp /\ lastResp'.op \in ReadOnlyOps
    \/ \E r \in NewlySuspended : r.op \in ReadOnlyOps
    \/ \E r \in Resumed : r.op \in ReadOnlyOps

\* C23: summarize, simplify and export are read-only: whatever their outcome
\* no step of theirs changes a session object or which sessions the store
\* holds, and the history of a session is only ever modified in the step
\* that answers a chat of that session with 200
C23_ReadOnlyOperations ==
    [][/\ ReadOnlyStep => heap' = heap /\ documentSessions' = documentSessions
       /\ \A i \in Sessions :
             HistoryOf(i)' # HistoryOf(i)
             => /\ ChatSucceeds
                /\ lastResp'.request.session = i]_vars

\* a summary, a simplification or the notes were returned for a session
\* that has a history
C23_Witness ==
    /\ lastResp.op \in ReadOnlyOps
    /\ lastResp.op # "export"
    /\ lastResp.status = 200
    /\ lastResp.request.session \in Sessions
    /\ HistoryOf(lastResp.request.session) # <<>>

\* C24: after the user confirms "New Document" the previous session's data
\* is cleared: the client's sessionId is null, documentUploaded is false,
\* both localStorage entries are removed and the previous session is no
\* longer held in the server's memory
C24_NewDocumentClearsSession ==
    [][handleConfirmNewDocument =>
          /\ app'.sessionId = NoId
          /\ ~app'.documentUploaded
          /\ SESSION_STORAGE_KEY \notin DOMAIN localStorage'
          /\ DOCUMENT_NAME_STORAGE_KEY \notin DOMAIN localStorage'
          /\ app.sessionId \notin DOMAIN documentSessions']_vars

GenericMessage == "An unexpected error occurred"

\* C25: in production mode every 500 sent for an unanticipated error carries
\* the generic message and never the message of the underlying exception
C25_ProductionHidesErrorDetail ==
    NODE_ENV = "production" /\ lastResp.status = 500 /\ lastResp.thrown # ""
        => /\ lastResp.message = GenericMessage
           /\ lastResp.message # lastResp.thrown

Ellipsis == <<".", ".", ".">>

\* C26: the preview is the first 200 characters of the extracted text,
\* followed by "..." if and only if the text is longer than 200 characters;
\* a text of 200 characters or fewer is returned whole with no ellipsis
C26_PreviewOfExtractedText ==
    out.done =>
        LET text == arg
            preview == out.value
            first == IF Len(text) > PreviewLen THEN SubSeq(text, 1, PreviewLen)
                     ELSE text
        IN  /\ SubSeq(preview, 1, Len(first)) = first
            /\ Len(preview) >= Len(first)
            /\ Len(text) > PreviewLen => preview = first \o Ellipsis
            /\ Len(text) <= PreviewLen => preview = text

\* the preview of a text of exactly 200 characters that ends in dots
C26_Witness ==
    /\ out.done
    /\ Len(arg) = PreviewLen
    /\ arg[PreviewLen] = "."
    /\ out.value = arg

\* the role a stored turn is sent with
SentRole(role) == IF role = "user" THEN "user" ELSE "assistant"

\* C27: the messages chat sends to the model are one system message embedding
\* the session's document text, then every turn of the session's history as
\* it stood when the request started, in order, user sent as user and model
\* as assistant, then the new question as the last user message; summarize
\* sends no history turns, only its instructions and the document text
C27_MessagesSentToModel ==
    [][\A r \in NewlySuspended :
          /\ r.op = "chat" =>
                LET h == HistoryOf(r.session)
                IN  /\ Len(r.messages) = Len(h) + 2
                    /\ r.messages[1] = Turn("system", heap[r.session].text)
                    /\ \A k \in 1..Len(h) :
                          r.messages[k + 1] = Turn(SentRole(h[k].role), h[k].content)
                    /\ r.messages[Len(h) + 2] = Turn("user", r.input)
          /\ r.op = "summarize" =>
                /\ Len(r.messages) = 2
                /\ r.messages[1].role = "system"
                /\ r.messages[2] = Turn("user", heap[r.session].text)]_vars

\* a chat waits for the model with a pair of earlier turns in its messages
C27_Witness ==
    \E r \in InFlight :
        /\ r.op = "chat"
        /\ r.pc = "openai"
        /\ Len(r.messages) = 4
        /\ r.messages[2].role = "user"
        /\ r.messages[3].role = "assistant"
        /\ r.messages[4] = Turn("user", r.input)

\* what a session is created with, apart from its history
Metadata(session) ==
    [sessionId |-> session.sessionId, filename |-> session.filename,
     mimetype |-> session.mimetype, filepath |-> session.filepath,
     text |-> session.text, uploadedAt |-> session.uploadedAt]

\* C28: from its creation until its deletion a session's sessionId, filename,
\* mimetype, filepath, text and uploadedAt never change, whatever chat,
\* summarize, simplify, export and upload operations run, and the entries
\* its history has are never modified, reordered or removed: the history
\* only grows at its end
C28_SessionImmutableHistoryAppendOnly ==
    [][\A k \in Keys \cap DOMAIN documentSessions' :
          /\ Metadata(heap[documentSessions[k]])' = Metadata(heap[documentSessions[k]])
          /\ \A n \in 1..Len(HistoryOf(documentSessions[k])) :
                /\ n <= Len(HistoryOf(documentSessions[k])')
                /\ HistoryOf(documentSessions[k])'[n] = HistoryOf(documentSessions[k])[n]]_vars

\* a stored session has a history and a later upload has moved the clock on
C28_Witness ==
    \E k \in Keys :
        /\ Len(HistoryOf(documentSessions[k])) = 2
        /\ heap[documentSessions[k]].uploadedAt < Now
        /\ Metadata(heap[documentSessions[k]]).sessionId = k

Brackets == {"[", "]"}

\* the substring i..j of raw starts at "[", ends at the next "]" and has no
\* bracket in between
PlainBracket(raw, i, j) ==
    /\ i < j
    /\ raw[i] = "["
    /\ raw[j] = "]"
    /\ \A m \in (i + 1)..(j - 1) : raw[m] \notin Brackets

\* C29: every citation the parser returns is the trimmed contents of a
\* substring of the raw output that starts at "[" and ends at the next "]"
\* with no bracket in between: it holds no bracket, and text before a nested
\* "[" is never merged into it
C29_CitationIsPlainBracketContents ==
    out.done =>
        LET citations == out.value.data.citations
        IN  \A k \in 1..Len(citations) :
                /\ \A n \in 1..Len(citations[k]) : citations[k][n] \notin Brackets
                /\ \E i, j \in 1..Len(arg) :
                      /\ PlainBracket(arg, i, j)
                      /\ citations[k] = Trim(SubSeq(arg, i + 1, j - 1))

\* the deletes of fileId that are suspended while the file is removed
DeletesUnlinking(fileId) ==
    {d \in InFlight : d.op = "delete" /\ d.pc = "unlink" /\ d.sessionId = fileId}

\* C30: for any session id at most one delete ever returns success: of two
\* overlapping deletes of a session only the one that takes the session out
\* of the store answers 200, and no chat, summarize, simplify or export that
\* starts after a delete began removing the file finds the session
C30_DeleteSucceedsOnce ==
    [][/\ \A d \in Resumed :
             d.op = "delete" /\ lastResp'.status = 200 => d.sessionId \in Keys
       /\ \A r \in NewlySuspended :
             r.op \in ModelOps => DeletesUnlinking(r.sessionId) = {}
       /\ ExportSucceeds => DeletesUnlinking(lastResp'.request.sessionId) = {}]_vars

====
